---- MODULE Spec2Model ----
(***************************************************************************)
(* State machine of the ExecutiveFeedbackSystem contract                   *)
(* (src/frontend/web/src/App.tsx, lines 500-716).                          *)
(*                                                                         *)
(* One action per external call.  A call that hits a failing require, a    *)
(* failing FHE.checkSignatures or a failing abi.decode reverts: the        *)
(* contract storage is left as it was and the transaction is recorded in   *)
(* `outcome` as not ok, with no event.                                     *)
(*                                                                         *)
(* The FHE library is external to the contract.  Its side is the list      *)
(* `requests` of the requests the contract has issued to it.  The contract *)
(* itself throws the returned request id away (lines 628, 678).            *)
(* block.timestamp and feedbackPeriod are not modelled.                    *)
(*                                                                         *)
(* Specifications: Spec, every transaction from both addresses;            *)
(* SpecWithReads, Spec with the calls of the view functions;               *)
(* SpecOneExecutive, the behaviours with a single registrant, followed to  *)
(* one request more; SpecStub, the behaviours whose callbacks carry the    *)
(* answers of a deterministic coprocessor.                                 *)
(***************************************************************************)
EXTENDS Integers, Sequences, FiniteSets, TLC

\* ------------------------------------------------------------------ bounds
\* records in the log; requests issued under Spec, SpecWithReads and
\* SpecStub; requests issued under SpecOneExecutive
MaxFeedback == 6
MaxRequests == 2
MaxRequestsOneExecutive == 3

\* ------------------------------------------------------- program constants
MIN_REVIEWERS == 5
NumCategories == 5
HandlesPerFeedback == 11

\* --------------------------------------------------------------- identities
\* alice may register as an executive; bob may register as an executive
\* and may be approved as a reviewer.  Every call is open to both.
Addr == {"alice", "bob"}

\* who calls registerExecutive, and who is passed to approveReviewer
Registrants == {"alice", "bob"}
ReviewerCandidates == {"bob"}

\* who calls registerExecutive in the behaviours of SpecOneExecutive
SoleRegistrant == {"alice"}

\* ---------------------------------------------------------- ciphertexts
\* An euint32 is a wrapped bytes32 handle, written <<h>>; the zero handle is
\* the default value of an unset storage slot.
Euint32(h) == <<h>>

ZeroHandle == 0

\* FHE.toBytes32: unwraps the handle of an euint32 (lines 620-623, 673-675)
ToBytes32(e) == e[1]

\* Handles of trivially encrypted values lie above the client's handles.
TrivialBase == 1000

\* FHE.asEuint32: the handle of the (trivial) encryption of a cleartext
\* uint32 (lines 652, 657)
AsEuint32(v) == Euint32(TrivialBase + v)

\* The arguments (encryptedScores, encryptedWeights, encryptedComments) of
\* the submitFeedback call that would create record `id`: every submission
\* carries freshly encrypted inputs, so its 11 handles are its own.
HandleStride == 100

FeedbackInputs(id) ==
    { [scores   |-> [j \in 1..NumCategories |-> Euint32(HandleStride * id + j)],
       weights  |-> [j \in 1..NumCategories |->
                        Euint32(HandleStride * id + NumCategories + j)],
       comments |-> Euint32(HandleStride * id + HandlesPerFeedback)] }

\* ------------------------------------------------------- callback payloads
\* `results` / `cleartexts` bytes: the ABI encoding of (uint32[5], uint32),
\* written here as the pair it decodes to; MalformedBytes does not decode.
ResultsA == << <<80, 70, 90, 60, 100>>, 80 >>
ResultsB == << <<50, 50, 50, 50, 50>>, 50 >>
MalformedBytes == << >>

\* abi.decode(results, (uint32[5], uint32)) succeeds (lines 645, 693)
DecodesOK(bytes) ==
    /\ Len(bytes) = 2
    /\ Len(bytes[1]) = NumCategories

\* A proof is the coprocessor's signature over one (request id, payload)
\* pair; ForgedProof is signed by nobody.
Sign(requestId, payload) == [requestId |-> requestId, payload |-> payload]

ForgedProof == [requestId |-> 0, payload |-> MalformedBytes]

\* The (payload, proof) pairs a callback is delivered with, for request id
\* `requestId`: each well-formed payload with the signature over it, a
\* tampered payload with the stale signature over the other payload, a
\* forged proof, and bytes that carry a signature but do not decode.
CallbackInputs(requestId) ==
    { [payload |-> ResultsA, proof |-> Sign(requestId, ResultsA)],
      [payload |-> ResultsB, proof |-> Sign(requestId, ResultsB)],
      [payload |-> ResultsB, proof |-> Sign(requestId, ResultsA)],
      [payload |-> ResultsA, proof |-> ForgedProof],
      [payload |-> MalformedBytes, proof |-> Sign(requestId, MalformedBytes)] }

\* the requestId recorded for a transaction of a function that takes none
NoRequest == 0

\* ------------------------------------------------------------------- state
VARIABLES
    feedbackCount,   \* uint256 public feedbackCount
    feedbacks,       \* mapping(uint256 => EncryptedFeedback), on the written ids
    reports,         \* mapping(address => LeadershipReport)
    isExecutive,     \* mapping(address => bool)
    isReviewer,      \* mapping(address => bool)
    requests,        \* requests issued to the FHE library, by request id
    outcome          \* the last call: function, request id, success, events,
                     \* returned value

vars == <<feedbackCount, feedbacks, reports, isExecutive, isReviewer,
          requests, outcome>>

storage == <<feedbackCount, feedbacks, reports, isExecutive, isReviewer>>

\* default value of an unset reports[a]
EmptyReport ==
    [encryptedAvgScores    |-> [j \in 1..NumCategories |-> Euint32(ZeroHandle)],
     encryptedOverallScore |-> Euint32(ZeroHandle),
     isAggregated          |-> FALSE]

Init ==
    /\ feedbackCount = 0
    /\ feedbacks = << >>
    /\ reports = [a \in Addr |-> EmptyReport]
    /\ isExecutive = [a \in Addr |-> FALSE]
    /\ isReviewer = [a \in Addr |-> FALSE]
    /\ requests = << >>
    /\ outcome = [op |-> "constructor", requestId |-> NoRequest, ok |-> TRUE,
                  error |-> "", events |-> << >>, returned |-> << >>]

\* ------------------------------------------------------------ transactions
\* a reverted call: nothing is written, nothing is emitted, and the
\* transaction carries the reason of the failed check
RevertCallback(op, requestId, reason) ==
    /\ outcome' = [op |-> op, requestId |-> requestId, ok |-> FALSE,
                   error |-> reason, events |-> << >>, returned |-> << >>]
    /\ UNCHANGED <<storage, requests>>

Revert(op, reason) == RevertCallback(op, NoRequest, reason)

SuccessCallback(op, requestId, events) ==
    outcome' = [op |-> op, requestId |-> requestId, ok |-> TRUE,
                error |-> "", events |-> events, returned |-> << >>]

Success(op, events) == SuccessCallback(op, NoRequest, events)

\* a view call that returns: nothing is written, nothing is emitted, and
\* the call carries the returned euint32
Return(op, value) ==
    /\ outcome' = [op |-> op, requestId |-> NoRequest, ok |-> TRUE,
                   error |-> "", events |-> << >>, returned |-> value]
    /\ UNCHANGED <<storage, requests>>

RegisterExecutive(sender) ==
    /\ isExecutive' = [isExecutive EXCEPT ![sender] = TRUE]
    /\ Success("registerExecutive", << >>)
    /\ UNCHANGED <<feedbackCount, feedbacks, reports, isReviewer, requests>>

\* approveReviewer as it would be if it flipped the flag instead of setting it
ApproveReviewerToggling(reviewer) ==
    /\ isReviewer' = [isReviewer EXCEPT ![reviewer] = ~@]
    /\ Success("approveReviewer", << >>)
    /\ UNCHANGED <<feedbackCount, feedbacks, reports, isExecutive, requests>>

ApproveReviewer(reviewer) ==
    /\ isReviewer' = [isReviewer EXCEPT ![reviewer] = TRUE]
    /\ Success("approveReviewer", << >>)
    /\ UNCHANGED <<feedbackCount, feedbacks, reports, isExecutive, requests>>

\* submitFeedback as it would be with a counter that is read but never
\* stored (`feedbackCount + 1` in place of `++feedbackCount`): every record
\* lands on the same id
SubmitFeedbackNoIncrement(sender, executive, in) ==
    IF ~isReviewer[sender]
    THEN Revert("submitFeedback", "Not reviewer")
    ELSE IF ~isExecutive[executive]
    THEN Revert("submitFeedback", "Invalid executive")
    ELSE LET newId == feedbackCount + 1
             categories == [j \in 1..NumCategories |->
                              [encryptedScore  |-> in.scores[j],
                               encryptedWeight |-> in.weights[j]]]
         IN /\ feedbacks' = (newId :>
                               [executive  |-> executive,
                                reviewer   |-> sender,
                                categories |-> categories,
                                encryptedComments |-> in.comments]) @@ feedbacks
            /\ Success("submitFeedback",
                       << [name |-> "FeedbackSubmitted", id |-> newId,
                           executive |-> executive] >>)
            /\ UNCHANGED <<feedbackCount, reports, isExecutive, isReviewer,
                           requests>>

\* submitFeedback as it would be without the require on the target (line
\* 575): any address can be reviewed
SubmitFeedbackAnyTarget(sender, executive, in) ==
    IF ~isReviewer[sender]
    THEN Revert("submitFeedback", "Not reviewer")
    ELSE LET newId == feedbackCount + 1
             categories == [j \in 1..NumCategories |->
                              [encryptedScore  |-> in.scores[j],
                               encryptedWeight |-> in.weights[j]]]
         IN /\ feedbackCount < MaxFeedback
            /\ feedbackCount' = newId
            /\ feedbacks' = feedbacks @@ (newId :>
                               [executive  |-> executive,
                                reviewer   |-> sender,
                                categories |-> categories,
                                encryptedComments |-> in.comments])
            /\ Success("submitFeedback",
                       << [name |-> "FeedbackSubmitted", id |-> newId,
                           executive |-> executive] >>)
            /\ UNCHANGED <<reports, isExecutive, isReviewer, requests>>

\* submitFeedback as it would be if the event also named the reviewer
\* (FeedbackSubmitted(newId, executive, msg.sender))
SubmitFeedbackNamingReviewer(sender, executive, in) ==
    IF ~isReviewer[sender]
    THEN Revert("submitFeedback", "Not reviewer")
    ELSE IF ~isExecutive[executive]
    THEN Revert("submitFeedback", "Invalid executive")
    ELSE LET newId == feedbackCount + 1
             categories == [j \in 1..NumCategories |->
                              [encryptedScore  |-> in.scores[j],
                               encryptedWeight |-> in.weights[j]]]
         IN /\ feedbackCount < MaxFeedback
            /\ feedbackCount' = newId
            /\ feedbacks' = feedbacks @@ (newId :>
                               [executive  |-> executive,
                                reviewer   |-> sender,
                                categories |-> categories,
                                encryptedComments |-> in.comments])
            /\ Success("submitFeedback",
                       << [name |-> "FeedbackSubmitted", id |-> newId,
                           executive |-> executive, reviewer |-> sender] >>)
            /\ UNCHANGED <<reports, isExecutive, isReviewer, requests>>

SubmitFeedback(sender, executive, in) ==
    IF ~isReviewer[sender]
    THEN Revert("submitFeedback", "Not reviewer")
    ELSE IF ~isExecutive[executive]
    THEN Revert("submitFeedback", "Invalid executive")
    ELSE LET newId == feedbackCount + 1
             categories == [j \in 1..NumCategories |->
                              [encryptedScore  |-> in.scores[j],
                               encryptedWeight |-> in.weights[j]]]
         IN /\ feedbackCount < MaxFeedback
            /\ feedbackCount' = newId
            /\ feedbacks' = feedbacks @@ (newId :>
                               [executive  |-> executive,
                                reviewer   |-> sender,
                                categories |-> categories,
                                encryptedComments |-> in.comments])
            /\ Success("submitFeedback",
                       << [name |-> "FeedbackSubmitted", id |-> newId,
                           executive |-> executive] >>)
            /\ UNCHANGED <<reports, isExecutive, isReviewer, requests>>

\* the handles of one record as they would be collected by one loop over
\* the scores followed by one loop over the weights
FeedbackCiphertextsScoresFirst(f) ==
    [j \in 1..NumCategories |-> ToBytes32(f.categories[j].encryptedScore)]
    \o [j \in 1..NumCategories |-> ToBytes32(f.categories[j].encryptedWeight)]
    \o << ToBytes32(f.encryptedComments) >>

\* the 11 handles of one record, in the order of the inner loop and the
\* comment slot (lines 619-623)
FeedbackCiphertexts(f) ==
    LET upTo[j \in 0..NumCategories] ==
            IF j = 0 THEN << >>
            ELSE upTo[j - 1] \o << ToBytes32(f.categories[j].encryptedScore),
                                   ToBytes32(f.categories[j].encryptedWeight) >>
    IN upTo[NumCategories] \o << ToBytes32(f.encryptedComments) >>

\* first loop (lines 604-609): the number of records of `executive`
FeedbackCountForExec(executive) ==
    Cardinality({i \in 1..feedbackCount : feedbacks[i].executive = executive})

\* second loop (lines 613-625): the handles of the records of `executive`
\* with ids from..feedbackCount, in id order
RECURSIVE CollectCiphertexts(_, _)
CollectCiphertexts(executive, from) ==
    IF from > feedbackCount THEN << >>
    ELSE (IF feedbacks[from].executive = executive
          THEN FeedbackCiphertexts(feedbacks[from])
          ELSE << >>) \o CollectCiphertexts(executive, from + 1)

\* the array passed to the library (lines 613-625): allocated with 11 slots
\* per record of `executive`, zero-filled, then written from index 0 on
AggregationCiphertexts(executive) ==
    LET collected == CollectCiphertexts(executive, 1)
        size == FeedbackCountForExec(executive) * HandlesPerFeedback
    IN [k \in 1..size |->
           IF k <= Len(collected) THEN collected[k] ELSE ZeroHandle]

\* FHE.requestComputation / FHE.requestDecryption (lines 628, 678): the
\* library stores the handles and the callback selector under the next
\* request id.  `executive` is the sender of the issuing transaction and
\* `fulfilled` tells whether the callback named by `selector` has been
\* accepted for the id: the contract stores neither, they are kept here as
\* the history of the request.
NewRequest(selector, ciphertexts, sender) ==
    [selector    |-> selector,
     ciphertexts |-> ciphertexts,
     executive   |-> sender,
     fulfilled   |-> FALSE]

\* the request list after function `selector` accepted a callback for
\* `requestId`
Fulfil(requestId, selector) ==
    [requests EXCEPT ![requestId].fulfilled =
        @ \/ requests[requestId].selector = selector]

\* requestAggregation as it would be if the library registered the request
\* before the record count was checked and kept it when the call fails
RequestAggregationIssuingFirst(sender) ==
    IF ~isExecutive[sender]
    THEN Revert("requestAggregation", "Not executive")
    ELSE IF reports[sender].isAggregated
    THEN Revert("requestAggregation", "Already aggregated")
    ELSE IF FeedbackCountForExec(sender) < MIN_REVIEWERS
    THEN /\ requests' = Append(requests,
                NewRequest("aggregateFeedback",
                           AggregationCiphertexts(sender), sender))
         /\ outcome' = [op |-> "requestAggregation", requestId |-> NoRequest,
                        ok |-> FALSE, error |-> "Insufficient feedback",
                        events |-> << >>, returned |-> << >>]
         /\ UNCHANGED storage
    ELSE /\ requests' = Append(requests,
                NewRequest("aggregateFeedback",
                           AggregationCiphertexts(sender), sender))
         /\ Success("requestAggregation",
                    << [name |-> "AggregationRequested",
                        executive |-> sender] >>)
         /\ UNCHANGED storage

RequestAggregation(sender) ==
    IF ~isExecutive[sender]
    THEN Revert("requestAggregation", "Not executive")
    ELSE IF reports[sender].isAggregated
    THEN Revert("requestAggregation", "Already aggregated")
    ELSE IF FeedbackCountForExec(sender) < MIN_REVIEWERS
    THEN Revert("requestAggregation", "Insufficient feedback")
    ELSE /\ requests' = Append(requests,
                NewRequest("aggregateFeedback",
                           AggregationCiphertexts(sender), sender))
         /\ Success("requestAggregation",
                    << [name |-> "AggregationRequested",
                        executive |-> sender] >>)
         /\ UNCHANGED storage

\* FHE.checkSignatures (lines 640, 688): the id must be one the library
\* issued and the proof must be the signature over this id and payload
CheckSignatures(requestId, payload, proof) ==
    /\ requestId \in 1..Len(requests)
    /\ proof = Sign(requestId, payload)

\* the report as it would be written without line 657: the category handles
\* and the flag are stored, the overall handle is left unset
ReportOfWithoutOverall(results) ==
    [encryptedAvgScores    |-> [j \in 1..NumCategories |->
                                   AsEuint32(results[1][j])],
     encryptedOverallScore |-> Euint32(ZeroHandle),
     isAggregated          |-> TRUE]

\* the report written by the callback (lines 650-659)
ReportOf(results) ==
    [encryptedAvgScores    |-> [j \in 1..NumCategories |->
                                   AsEuint32(results[1][j])],
     encryptedOverallScore |-> AsEuint32(results[2]),
     isAggregated          |-> TRUE]

\* aggregateFeedback as it would be without the call of
\* FHE.checkSignatures: the payload is decoded and applied unverified
AggregateFeedbackUnverified(sender, requestId, results, proof) ==
    IF ~DecodesOK(results)
    THEN RevertCallback("aggregateFeedback", requestId, "abi.decode")
    ELSE /\ reports' = [reports EXCEPT ![sender] = ReportOf(results)]
         /\ requests' = IF requestId \in 1..Len(requests)
                        THEN Fulfil(requestId, "aggregateFeedback")
                        ELSE requests
         /\ SuccessCallback("aggregateFeedback", requestId,
                    << [name |-> "ReportGenerated", executive |-> sender] >>)
         /\ UNCHANGED <<feedbackCount, feedbacks, isExecutive, isReviewer>>

AggregateFeedback(sender, requestId, results, proof) ==
    IF ~CheckSignatures(requestId, results, proof)
    THEN RevertCallback("aggregateFeedback", requestId, "checkSignatures")
    ELSE IF ~DecodesOK(results)
    THEN RevertCallback("aggregateFeedback", requestId, "abi.decode")
    ELSE LET executive == sender
         IN /\ reports' = [reports EXCEPT ![executive] = ReportOf(results)]
            /\ requests' = Fulfil(requestId, "aggregateFeedback")
            /\ SuccessCallback("aggregateFeedback", requestId,
                       << [name |-> "ReportGenerated",
                           executive |-> executive] >>)
            /\ UNCHANGED <<feedbackCount, feedbacks, isExecutive, isReviewer>>

\* the six handles sent for decryption (lines 669-675)
ReportCiphertexts(report) ==
    [j \in 1..NumCategories |-> ToBytes32(report.encryptedAvgScores[j])]
        \o << ToBytes32(report.encryptedOverallScore) >>

RequestReportDecryption(sender) ==
    IF ~isExecutive[sender]
    THEN Revert("requestReportDecryption", "Not executive")
    ELSE IF ~reports[sender].isAggregated
    THEN Revert("requestReportDecryption", "Report not ready")
    ELSE /\ requests' = Append(requests,
                NewRequest("decryptReport",
                           ReportCiphertexts(reports[sender]), sender))
         /\ Success("requestReportDecryption", << >>)
         /\ UNCHANGED storage

\* decryptReport as it would be if it closed the cycle by clearing the
\* caller's aggregation flag after the disclosure
DecryptReportResetting(sender, requestId, cleartexts, proof) ==
    IF ~CheckSignatures(requestId, cleartexts, proof)
    THEN RevertCallback("decryptReport", requestId, "checkSignatures")
    ELSE IF ~DecodesOK(cleartexts)
    THEN RevertCallback("decryptReport", requestId, "abi.decode")
    ELSE /\ reports' = [reports EXCEPT ![sender].isAggregated = FALSE]
         /\ requests' = Fulfil(requestId, "decryptReport")
         /\ SuccessCallback("decryptReport", requestId,
                    << [name |-> "ReportDecrypted", executive |-> sender] >>)
         /\ UNCHANGED <<feedbackCount, feedbacks, isExecutive, isReviewer>>

\* decryptReport as it would be if it kept the decoded cleartexts in the
\* caller's report, in the slots the accessors read
DecryptReportStoring(sender, requestId, cleartexts, proof) ==
    IF ~CheckSignatures(requestId, cleartexts, proof)
    THEN RevertCallback("decryptReport", requestId, "checkSignatures")
    ELSE IF ~DecodesOK(cleartexts)
    THEN RevertCallback("decryptReport", requestId, "abi.decode")
    ELSE /\ reports' = [reports EXCEPT ![sender] =
                [encryptedAvgScores    |-> [j \in 1..NumCategories |->
                                               Euint32(cleartexts[1][j])],
                 encryptedOverallScore |-> Euint32(cleartexts[2]),
                 isAggregated          |-> TRUE]]
         /\ requests' = Fulfil(requestId, "decryptReport")
         /\ SuccessCallback("decryptReport", requestId,
                    << [name |-> "ReportDecrypted", executive |-> sender] >>)
         /\ UNCHANGED <<feedbackCount, feedbacks, isExecutive, isReviewer>>

DecryptReport(sender, requestId, cleartexts, proof) ==
    IF ~CheckSignatures(requestId, cleartexts, proof)
    THEN RevertCallback("decryptReport", requestId, "checkSignatures")
    ELSE IF ~DecodesOK(cleartexts)
    THEN RevertCallback("decryptReport", requestId, "abi.decode")
    ELSE /\ requests' = Fulfil(requestId, "decryptReport")
         /\ SuccessCallback("decryptReport", requestId,
                    << [name |-> "ReportDecrypted", executive |-> sender] >>)
         /\ UNCHANGED storage

\* the category indices a caller passes: the five valid ones and one
\* out of range
CategoryIndices == 0..NumCategories

\* (any caller: msg.sender is not read)
GetEncryptedCategoryScore(executive, category) ==
    IF ~(category < NumCategories)
    THEN Revert("getEncryptedCategoryScore", "Invalid category")
    ELSE Return("getEncryptedCategoryScore",
                reports[executive].encryptedAvgScores[category + 1])

GetEncryptedOverallScore(sender, executive) ==
    IF ~isExecutive[sender]
    THEN Revert("getEncryptedOverallScore", "Not executive")
    ELSE Return("getEncryptedOverallScore",
                reports[executive].encryptedOverallScore)

Next ==
    \/ \E sender \in Registrants : RegisterExecutive(sender)
    \/ \E reviewer \in ReviewerCandidates : ApproveReviewer(reviewer)
    \/ \E sender \in Addr, executive \in Addr,
          in \in FeedbackInputs(feedbackCount + 1) :
          SubmitFeedback(sender, executive, in)
    \/ \E sender \in Addr :
          RequestAggregation(sender) /\ Len(requests') <= MaxRequests
    \/ \E sender \in Addr, requestId \in 1..MaxRequests :
          \E in \in CallbackInputs(requestId) :
             AggregateFeedback(sender, requestId, in.payload, in.proof)
    \/ \E sender \in Addr :
          RequestReportDecryption(sender) /\ Len(requests') <= MaxRequests
    \/ \E sender \in Addr, requestId \in 1..MaxRequests :
          \E in \in CallbackInputs(requestId) :
             DecryptReport(sender, requestId, in.payload, in.proof)

Spec == Init /\ [][Next]_vars

\* The transactions of Spec together with the calls of the two view
\* functions that read a report.
NextWithReads ==
    \/ Next
    \/ \E executive \in Addr, category \in CategoryIndices :
          GetEncryptedCategoryScore(executive, category)
    \/ \E sender \in Addr, executive \in Addr :
          GetEncryptedOverallScore(sender, executive)

SpecWithReads == Init /\ [][NextWithReads]_vars

\* ------------------------------------------------ deterministic coprocessor
\* The cleartexts behind the handles.  The reviewers' inputs: record `id`
\* scores category j with ScoreRow rotated by the id, so that the first
\* MIN_REVIEWERS records score category 1 with 80, 70, 90, 60, 100; every
\* weight is 1 and the comment carries 0.
ScoreRow == <<80, 70, 90, 60, 100>>

PlainWeight == 1

PlainScore(id, j) == ScoreRow[((id + j - 2) % NumCategories) + 1]

\* decryption of one handle: a trivial encryption carries its value, a
\* client handle the value the client encrypted, the zero handle 0
PlainOf(h) ==
    IF h >= TrivialBase THEN h - TrivialBase
    ELSE LET id   == h \div HandleStride
             slot == h % HandleStride
         IN IF id = 0 THEN 0
            ELSE IF slot \in 1..NumCategories THEN PlainScore(id, slot)
            ELSE IF slot \in (NumCategories + 1)..(2 * NumCategories)
            THEN PlainWeight
            ELSE 0

\* The aggregation the coprocessor runs on a request: the list is read as
\* records of HandlesPerFeedback handles, (score, weight) per category and
\* then the comment; the result is the weighted mean per category and the
\* mean of these five, in uint32 arithmetic.
RECURSIVE ListWeightedSum(_, _, _)
ListWeightedSum(ciphertexts, j, n) ==
    IF n = 0 THEN 0
    ELSE ListWeightedSum(ciphertexts, j, n - 1)
         + PlainOf(ciphertexts[HandlesPerFeedback * (n - 1) + 2 * j - 1])
           * PlainOf(ciphertexts[HandlesPerFeedback * (n - 1) + 2 * j])

RECURSIVE ListWeightSum(_, _, _)
ListWeightSum(ciphertexts, j, n) ==
    IF n = 0 THEN 0
    ELSE ListWeightSum(ciphertexts, j, n - 1)
         + PlainOf(ciphertexts[HandlesPerFeedback * (n - 1) + 2 * j])

RECURSIVE SeqSum(_, _)
SeqSum(values, n) == IF n = 0 THEN 0 ELSE SeqSum(values, n - 1) + values[n]

StubAggregate(ciphertexts) ==
    LET n   == Len(ciphertexts) \div HandlesPerFeedback
        avg == [j \in 1..NumCategories |->
                   ListWeightedSum(ciphertexts, j, n)
                       \div ListWeightSum(ciphertexts, j, n)]
    IN << avg, SeqSum(avg, NumCategories) \div NumCategories >>

\* The decryption the coprocessor runs on a request of six handles
StubDecrypt(ciphertexts) ==
    << [j \in 1..NumCategories |-> PlainOf(ciphertexts[j])],
       PlainOf(ciphertexts[NumCategories + 1]) >>

\* the payload the coprocessor signs for issued request `requestId`
StubResults(requestId) ==
    IF requests[requestId].selector = "aggregateFeedback"
    THEN StubAggregate(requests[requestId].ciphertexts)
    ELSE StubDecrypt(requests[requestId].ciphertexts)

\* The behaviours in which every callback carries the coprocessor's answer
\* to an issued request, with the signature over it; the signed answer is
\* public, so any address may deliver it, to either callback.
NextStub ==
    \/ \E sender \in Registrants : RegisterExecutive(sender)
    \/ \E reviewer \in ReviewerCandidates : ApproveReviewer(reviewer)
    \/ \E sender \in Addr, executive \in Addr,
          in \in FeedbackInputs(feedbackCount + 1) :
          SubmitFeedback(sender, executive, in)
    \/ \E sender \in Addr :
          RequestAggregation(sender) /\ Len(requests') <= MaxRequests
    \/ \E sender \in Addr, requestId \in 1..Len(requests) :
          AggregateFeedback(sender, requestId, StubResults(requestId),
                            Sign(requestId, StubResults(requestId)))
    \/ \E sender \in Addr :
          RequestReportDecryption(sender) /\ Len(requests') <= MaxRequests
    \/ \E sender \in Addr, requestId \in 1..Len(requests) :
          DecryptReport(sender, requestId, StubResults(requestId),
                        Sign(requestId, StubResults(requestId)))

SpecStub == Init /\ [][NextStub]_vars

\* The behaviours in which alice is the only address that registers as an
\* executive (every other call stays open to both addresses).  With one
\* executive the request list is followed one request further than in Spec.
NextOneExecutive ==
    \/ \E sender \in SoleRegistrant : RegisterExecutive(sender)
    \/ \E reviewer \in ReviewerCandidates : ApproveReviewer(reviewer)
    \/ \E sender \in Addr, executive \in Addr,
          in \in FeedbackInputs(feedbackCount + 1) :
          SubmitFeedback(sender, executive, in)
    \/ \E sender \in Addr :
          RequestAggregation(sender) /\ Len(requests') <= MaxRequestsOneExecutive
    \/ \E sender \in Addr, requestId \in 1..MaxRequestsOneExecutive :
          \E in \in CallbackInputs(requestId) :
             AggregateFeedback(sender, requestId, in.payload, in.proof)
    \/ \E sender \in Addr :
          /\ RequestReportDecryption(sender)
          /\ Len(requests') <= MaxRequestsOneExecutive
    \/ \E sender \in Addr, requestId \in 1..MaxRequestsOneExecutive :
          \E in \in CallbackInputs(requestId) :
             DecryptReport(sender, requestId, in.payload, in.proof)

SpecOneExecutive == Init /\ [][NextOneExecutive]_vars

\* ===================================================================
\* Properties
\* ===================================================================
IssuedIds == 1..Len(requests)

\* request r was issued by requestAggregation / by requestReportDecryption
IsAggregationRequest(r) == requests[r].selector = "aggregateFeedback"

IsDecryptionRequest(r) == requests[r].selector = "decryptReport"

\* an issued request whose own callback has not been accepted yet
Pending(r) == ~requests[r].fulfilled

PendingAggregationsOf(e) ==
    {r \in IssuedIds : /\ IsAggregationRequest(r)
                       /\ requests[r].executive = e
                       /\ Pending(r)}

\* C1: for every registered executive e, requestAggregation by e succeeds
\* exactly when e has at least MIN_REVIEWERS feedback records, report[e] is
\* not aggregated and no aggregation request of e is Pending.
C1_RequestAggregationIff ==
    [][outcome'.op = "requestAggregation" => \A e \in Addr :
          (isExecutive[e] /\ RequestAggregation(e)) =>
             (outcome'.ok <=>
                 /\ FeedbackCountForExec(e) >= MIN_REVIEWERS
                 /\ ~reports[e].isAggregated
                 /\ PendingAggregationsOf(e) = {})]_vars

\* C2: whenever report[a] is aggregated, an aggregation request issued by a
\* has been accepted by a callback and a has at least MIN_REVIEWERS feedback
\* records.
C2_AggregatedOnlyAfterOwnRequest ==
    \A a \in Addr :
        reports[a].isAggregated =>
            /\ \E r \in IssuedIds : /\ IsAggregationRequest(r)
                                    /\ requests[r].executive = a
                                    /\ requests[r].fulfilled
            /\ FeedbackCountForExec(a) >= MIN_REVIEWERS

\* C3: an accepted aggregation callback for request id r writes its result
\* into the report of the executive that issued r and into no other report,
\* whoever delivers it.
C3_CallbackTargetsIssuer ==
    [][outcome'.op = "aggregateFeedback" => \A c \in Addr, r \in 1..MaxRequests :
          \A in \in CallbackInputs(r) :
             (AggregateFeedback(c, r, in.payload, in.proof) /\ outcome'.ok) =>
                 /\ reports'[requests[r].executive] = ReportOf(in.payload)
                 /\ \A a \in Addr \ {requests[r].executive} :
                        reports'[a] = reports[a]]_vars

\* C4: every executive has at most one Pending aggregation request, and a
\* requestAggregation by e while one of e is Pending is rejected.
C4_OnePendingAggregation ==
    [][/\ \A e \in Addr :
             (RequestAggregation(e) /\ PendingAggregationsOf(e) # {}) =>
                 ~outcome'.ok
       /\ \A e \in Addr : Cardinality(PendingAggregationsOf(e)') <= 1]_vars

\* C5: a further aggregation callback for a request id whose callback was
\* already accepted changes no storage, even with a valid proof and another
\* payload.
C5_ReplayIsNoOp ==
    [][outcome'.op = "aggregateFeedback" => \A c \in Addr, r \in 1..MaxRequests :
          \A in \in CallbackInputs(r) :
             (/\ r \in IssuedIds
              /\ IsAggregationRequest(r)
              /\ ~Pending(r)
              /\ AggregateFeedback(c, r, in.payload, in.proof)) =>
                 UNCHANGED storage]_vars

\* C6: once report[a] is aggregated, no step changes its flag or any of its
\* six handles.
C6_ReportWrittenOnce ==
    [][\A a \in Addr :
          reports[a].isAggregated => reports'[a] = reports[a]]_vars

\* C7: an aggregation or decryption callback whose proof does not verify
\* against its request id and payload reverts: reports, feedback log, roles
\* and the request list are unchanged and no event is emitted.  Stated as:
\* every callback step either is such a revert or is the step of no call
\* whose proof fails to verify.
C7_InvalidProofMutatesNothing ==
    [][outcome'.op \in {"aggregateFeedback", "decryptReport"} =>
          \/ /\ UNCHANGED <<storage, requests>>
             /\ ~outcome'.ok
             /\ outcome'.events = << >>
          \/ \A c \in Addr, r \in 1..MaxRequests :
                \A in \in CallbackInputs(r) :
                   ~CheckSignatures(r, in.payload, in.proof) =>
                      /\ ~AggregateFeedback(c, r, in.payload, in.proof)
                      /\ ~DecryptReport(c, r, in.payload, in.proof)]_vars

\* C7 witness: an aggregation callback was just rejected by the signature
\* check while an aggregation request was Pending and the report of its
\* executive was still not aggregated.
C7_Witness ==
    /\ outcome.op = "aggregateFeedback"
    /\ outcome.error = "checkSignatures"
    /\ \E r \in IssuedIds : /\ IsAggregationRequest(r)
                            /\ Pending(r)
                            /\ ~reports[requests[r].executive].isAggregated

\* C8: for every registered executive e, requestReportDecryption by e
\* succeeds exactly when report[e] is aggregated, and a decryption request
\* of e is issued only after the callback of an aggregation request of e
\* was accepted.
C8_DecryptionAfterAggregation ==
    [][outcome'.op = "requestReportDecryption" => \A e \in Addr :
          (isExecutive[e] /\ RequestReportDecryption(e)) =>
             /\ outcome'.ok <=> reports[e].isAggregated
             /\ outcome'.ok =>
                   \E r \in IssuedIds : /\ IsAggregationRequest(r)
                                        /\ requests[r].executive = e
                                        /\ requests[r].fulfilled]_vars

\* C9: an accepted decryption callback for decryption request r addresses
\* its disclosure (ReportDecrypted) to the executive that issued r and to
\* nobody else, whoever delivers the callback.
C9_DisclosureToIssuer ==
    [][outcome'.op = "decryptReport" => \A c \in Addr, r \in 1..MaxRequests :
          \A in \in CallbackInputs(r) :
             (/\ DecryptReport(c, r, in.payload, in.proof)
              /\ outcome'.ok
              /\ IsDecryptionRequest(r)) =>
                 outcome'.events =
                     << [name |-> "ReportDecrypted",
                         executive |-> requests[r].executive] >>]_vars

\* C10: a disclosure for decryption request r happens at most once: no
\* decryption callback is accepted for an r that was already disclosed.
C10_DisclosureAtMostOnce ==
    [][outcome'.op = "decryptReport" => \A c \in Addr, r \in 1..MaxRequests :
          \A in \in CallbackInputs(r) :
             (/\ DecryptReport(c, r, in.payload, in.proof)
              /\ outcome'.ok
              /\ IsDecryptionRequest(r)) =>
                 Pending(r)]_vars

\* C11: the feedback log is append-only.  A successful submitFeedback raises
\* feedbackCount by exactly 1 and stores the submitted record under the id
\* feedbackCount + 1, which was not assigned before; every other step leaves
\* feedbackCount alone; and no step changes or removes a record whose id is
\* already assigned.
C11_FeedbackLogAppendOnly ==
    [][/\ \A i \in DOMAIN feedbacks :
             /\ i \in DOMAIN feedbacks'
             /\ feedbacks'[i] = feedbacks[i]
       /\ IF outcome'.op = "submitFeedback" /\ outcome'.ok
          THEN \A s \in Addr, e \in Addr :
                  \A in \in FeedbackInputs(feedbackCount + 1) :
                     SubmitFeedback(s, e, in) =>
                        /\ feedbackCount' = feedbackCount + 1
                        /\ feedbackCount' \notin DOMAIN feedbacks
                        /\ DOMAIN feedbacks' = 1..feedbackCount'
                        /\ feedbacks'[feedbackCount'].executive = e
                        /\ feedbacks'[feedbackCount'].reviewer = s
                        /\ FeedbackCiphertexts(feedbacks'[feedbackCount']) =
                              [k \in 1..HandlesPerFeedback |->
                                 IF k = HandlesPerFeedback
                                 THEN ToBytes32(in.comments)
                                 ELSE IF k % 2 = 1
                                 THEN ToBytes32(in.scores[(k + 1) \div 2])
                                 ELSE ToBytes32(in.weights[k \div 2])]
          ELSE UNCHANGED <<feedbackCount, feedbacks>>]_vars

\* C11 witness: a record was just appended to a log that already held
\* MIN_REVIEWERS records, after a report had been aggregated.
C11_Witness ==
    /\ outcome.op = "submitFeedback"
    /\ outcome.ok
    /\ feedbackCount > MIN_REVIEWERS
    /\ \E a \in Addr : reports[a].isAggregated

\* C12: submitFeedback by s for target e succeeds exactly when s is a
\* reviewer and e is an executive, whatever the handles submitted, the
\* aggregation state of e, and whether s is e.
C12_SubmitFeedbackAdmission ==
    [][outcome'.op = "submitFeedback" => \A s \in Addr, e \in Addr :
          \A in \in FeedbackInputs(feedbackCount + 1) :
             SubmitFeedback(s, e, in) =>
                (outcome'.ok <=> (isReviewer[s] /\ isExecutive[e]))]_vars

\* C12 witness: a reviewer who is also an executive just submitted feedback
\* about themself while their own report was already aggregated.
C12_Witness ==
    /\ outcome.op = "submitFeedback"
    /\ outcome.ok
    /\ feedbacks[feedbackCount].reviewer = feedbacks[feedbackCount].executive
    /\ reports[feedbacks[feedbackCount].executive].isAggregated

\* C13: the decryption flow is read-only on the contract storage: a step of
\* requestReportDecryption or of decryptReport, accepted or reverted, leaves
\* every report (six handles and flag), the feedback log, feedbackCount and
\* both role maps unchanged.
C13_DecryptionReadOnly ==
    [][outcome'.op \in {"requestReportDecryption", "decryptReport"} =>
          /\ reports' = reports
          /\ feedbacks' = feedbacks
          /\ feedbackCount' = feedbackCount
          /\ isExecutive' = isExecutive
          /\ isReviewer' = isReviewer]_vars

\* C13 witness: a decryption callback was just accepted for a decryption
\* request, with an aggregated report in the store.
C13_Witness ==
    /\ outcome.op = "decryptReport"
    /\ outcome.ok
    /\ \E r \in IssuedIds :
          /\ IsDecryptionRequest(r)
          /\ requests[r].fulfilled
          /\ reports[requests[r].executive].isAggregated

\* C14: once a callback with an invalid proof has arrived for a Pending
\* request r, r is Rejected: a later callback for r is not applied, even
\* with a valid proof.  Stated on two consecutive transactions: if the last
\* transaction was the callback of r's kind for Pending r, rejected by the
\* signature check, then a callback for r delivered next is not accepted.
C14_RejectedRequestStaysRejected ==
    [][\A r \in IssuedIds :
          (/\ Pending(r)
           /\ outcome.op = requests[r].selector
           /\ outcome.requestId = r
           /\ outcome.error = "checkSignatures"
           /\ outcome'.op = requests[r].selector
           /\ outcome'.requestId = r) =>
              /\ ~outcome'.ok
              /\ outcome'.events = << >>
              /\ UNCHANGED storage]_vars

PendingDecryptionsOf(e) ==
    {r \in IssuedIds : /\ IsDecryptionRequest(r)
                       /\ requests[r].executive = e
                       /\ Pending(r)}

\* C15: in every reachable state every executive has at most one Pending
\* decryption request.
C15_OnePendingDecryption ==
    \A e \in Addr : Cardinality(PendingDecryptionsOf(e)) <= 1

\* the reviewers other than e that have a feedback record about e
DistinctReviewersOf(e) ==
    {feedbacks[i].reviewer :
        i \in {k \in 1..feedbackCount : feedbacks[k].executive = e}} \ {e}

\* C16: requestAggregation by e succeeds only when feedback records about e
\* exist from at least MIN_REVIEWERS pairwise distinct reviewers other than
\* e; several records of one reviewer count once.
C16_ThresholdCountsDistinctReviewers ==
    [][outcome'.op = "requestAggregation" => \A e \in Addr :
          (RequestAggregation(e) /\ outcome'.ok) =>
             Cardinality(DistinctReviewersOf(e)) >= MIN_REVIEWERS]_vars

RECURSIVE LogWeightedSum(_, _, _)
LogWeightedSum(e, j, upTo) ==
    IF upTo = 0 THEN 0
    ELSE LogWeightedSum(e, j, upTo - 1)
         + (IF feedbacks[upTo].executive = e
            THEN PlainScore(upTo, j) * PlainWeight
            ELSE 0)

ExpectedMeans(e) ==
    LET avg == [j \in 1..NumCategories |->
                   LogWeightedSum(e, j, feedbackCount)
                       \div (FeedbackCountForExec(e) * PlainWeight)]
    IN << avg, SeqSum(avg, NumCategories) \div NumCategories >>

\* the values behind the six handles of a report
ReportValues(report) == StubDecrypt(ReportCiphertexts(report))

\* aggregation request r was issued by e over all the records e has now,
\* at least MIN_REVIEWERS of them
CoversAllRecordsOf(r, e) ==
    /\ IsAggregationRequest(r)
    /\ requests[r].executive = e
    /\ FeedbackCountForExec(e) >= MIN_REVIEWERS
    /\ Len(requests[r].ciphertexts) = HandlesPerFeedback * FeedbackCountForExec(e)

\* C18: end to end with the deterministic coprocessor.  Once the
\* coprocessor's answer to the aggregation request of executive e over
\* e's MIN_REVIEWERS or more records has been accepted, the report of e
\* carries the means of the scores of exactly e's records; and the values
\* the accepted decryption callback of a decryption request of e carries
\* are these means.
C18_EndToEndMeans ==
    [][/\ (outcome'.op = "aggregateFeedback" /\ outcome'.ok) =>
             \A r \in IssuedIds :
                (outcome'.requestId = r
                 /\ CoversAllRecordsOf(r, requests[r].executive)) =>
                   /\ reports'[requests[r].executive].isAggregated
                   /\ ReportValues(reports'[requests[r].executive]) =
                         ExpectedMeans(requests[r].executive)
       /\ (outcome'.op = "decryptReport" /\ outcome'.ok) =>
             \A r \in IssuedIds :
                (/\ outcome'.requestId = r
                 /\ IsDecryptionRequest(r)
                 /\ \E ra \in IssuedIds :
                       /\ CoversAllRecordsOf(ra, requests[r].executive)
                       /\ requests[ra].fulfilled) =>
                   StubResults(r) = ExpectedMeans(requests[r].executive)]_vars

\* the cleartext values a callback payload can carry
PayloadCleartexts ==
    UNION {{in.payload[1][j] : j \in 1..NumCategories} \cup {in.payload[2]} :
              in \in {c \in CallbackInputs(1) : DecodesOK(c.payload)}}

\* C19: the read accessors change no state and return the handle stored in
\* report[executive] (category index 0..4, or the overall handle); a
\* decryption callback, accepted or not, changes nothing an accessor can
\* return, and no accessor ever returns a cleartext value of a callback
\* payload in place of a handle.
C19_AccessorsReturnStoredHandles ==
    [][/\ outcome'.op = "getEncryptedCategoryScore" =>
             /\ UNCHANGED <<storage, requests>>
             /\ outcome'.events = << >>
             /\ \A e \in Addr, category \in CategoryIndices :
                   GetEncryptedCategoryScore(e, category) =>
                      /\ outcome'.ok <=> category \in 0..(NumCategories - 1)
                      /\ outcome'.ok =>
                            /\ outcome'.returned =
                                  reports[e].encryptedAvgScores[category + 1]
                            /\ ToBytes32(outcome'.returned) \notin PayloadCleartexts
       /\ outcome'.op = "getEncryptedOverallScore" =>
             /\ UNCHANGED <<storage, requests>>
             /\ outcome'.events = << >>
             /\ \A s \in Addr, e \in Addr :
                   (GetEncryptedOverallScore(s, e) /\ outcome'.ok) =>
                      /\ outcome'.returned = reports[e].encryptedOverallScore
                      /\ ToBytes32(outcome'.returned) \notin PayloadCleartexts
       /\ outcome'.op = "decryptReport" => reports' = reports]_vars

\* C19 witness: after a decryption callback was accepted for a decryption
\* request, a read accessor just returned a handle of an aggregated report.
C19_Witness ==
    /\ outcome.op \in {"getEncryptedCategoryScore", "getEncryptedOverallScore"}
    /\ outcome.ok
    /\ outcome.returned # Euint32(ZeroHandle)
    /\ \E r \in IssuedIds : IsDecryptionRequest(r) /\ requests[r].fulfilled

\* C20: a successful submitFeedback emits exactly one event,
\* FeedbackSubmitted, whose only fields are the new record id and the
\* target executive: it has no field for the reviewer and its id is none
\* of the submitted handles; a rejected submitFeedback emits nothing.
C20_SubmissionEventContent ==
    [][outcome'.op = "submitFeedback" => \A s \in Addr, e \in Addr :
          \A in \in FeedbackInputs(feedbackCount + 1) :
             SubmitFeedback(s, e, in) =>
                IF outcome'.ok
                THEN /\ Len(outcome'.events) = 1
                     /\ DOMAIN outcome'.events[1] = {"name", "id", "executive"}
                     /\ outcome'.events[1].name = "FeedbackSubmitted"
                     /\ outcome'.events[1].id = feedbackCount + 1
                     /\ outcome'.events[1].executive = e
                     /\ \A k \in 1..HandlesPerFeedback :
                           outcome'.events[1].id #
                              FeedbackCiphertexts(feedbacks'[feedbackCount'])[k]
                ELSE outcome'.events = << >>]_vars

\* C20 witness: a reviewer other than the target just submitted a record
\* to a log that already held records.
C20_Witness ==
    /\ outcome.op = "submitFeedback"
    /\ outcome.ok
    /\ feedbackCount >= 2
    /\ feedbacks[feedbackCount].reviewer # feedbacks[feedbackCount].executive

\* C21: a callback is applied only for an existing Pending request of its
\* own kind.  An aggregation callback whose id was never issued, belongs to
\* a decryption request or is no longer Pending changes no report; a
\* decryption callback is accepted only for a Pending decryption request.
C21_CallbackOnlyForPendingOfKind ==
    [][/\ outcome'.op = "aggregateFeedback" =>
             (~(/\ outcome'.requestId \in IssuedIds
                /\ IsAggregationRequest(outcome'.requestId)
                /\ Pending(outcome'.requestId)) =>
                   /\ reports' = reports
                   /\ ~outcome'.ok)
       /\ outcome'.op = "decryptReport" =>
             (~(/\ outcome'.requestId \in IssuedIds
                /\ IsDecryptionRequest(outcome'.requestId)
                /\ Pending(outcome'.requestId)) =>
                   ~outcome'.ok)]_vars

\* payloads that decode to (uint32[5], uint32)
DecodablePayloads == {ResultsA, ResultsB}

\* every handle of the report is set, and all six come from payload p
CompleteFrom(report, p) ==
    /\ report.isAggregated
    /\ \A j \in 1..NumCategories :
          /\ ToBytes32(report.encryptedAvgScores[j]) # ZeroHandle
          /\ report.encryptedAvgScores[j] = AsEuint32(p[1][j])
    /\ ToBytes32(report.encryptedOverallScore) # ZeroHandle
    /\ report.encryptedOverallScore = AsEuint32(p[2])

ReportsWholeOrDefault ==
    \A e \in Addr :
       \/ reports[e] = EmptyReport
       \/ \E p \in DecodablePayloads : CompleteFrom(reports[e], p)

\* C22: no partially aggregated report is observable.  In every reachable
\* state each report is the default or is aggregated with all six handles
\* taken from one payload; an accepted aggregation callback writes the whole
\* report from its payload, and a callback that fails verification or
\* decoding leaves every report as it was.
C22_NoPartialReport ==
    /\ []ReportsWholeOrDefault
    /\ [][outcome'.op = "aggregateFeedback" =>
            /\ (~outcome'.ok => reports' = reports)
            /\ \A sender \in Addr, in \in CallbackInputs(outcome'.requestId) :
                 (/\ AggregateFeedback(sender, outcome'.requestId,
                                       in.payload, in.proof)
                  /\ outcome'.ok) =>
                     /\ CompleteFrom(reports'[sender], in.payload)
                     /\ \A a \in Addr \ {sender} :
                           reports'[a] = reports[a]]_vars

\* a callback with bytes that do not decode is rejected while a report
\* written by an earlier callback exists
C22_Witness ==
    /\ outcome.op = "aggregateFeedback"
    /\ ~outcome.ok
    /\ outcome.error = "abi.decode"
    /\ \E e \in Addr : reports[e].isAggregated

\* ids of the records of e, and the position of record i among them
RecordsOf(e) == {i \in 1..feedbackCount : feedbacks[i].executive = e}

RankAmong(e, i) == Cardinality({k \in RecordsOf(e) : k <= i})

\* list L holds, for every record of e and for no other record, one block
\* of 11 handles at the place given by the record's rank: score and weight
\* of category 0, ..., score and weight of category 4, then the comment
IsHandleListOf(L, e) ==
    /\ Len(L) = HandlesPerFeedback * Cardinality(RecordsOf(e))
    /\ \A i \in RecordsOf(e) :
          LET base == HandlesPerFeedback * (RankAmong(e, i) - 1)
          IN /\ \A j \in 1..NumCategories :
                   /\ Euint32(L[base + 2 * j - 1]) =
                         feedbacks[i].categories[j].encryptedScore
                   /\ Euint32(L[base + 2 * j]) =
                         feedbacks[i].categories[j].encryptedWeight
             /\ Euint32(L[base + HandlesPerFeedback]) =
                   feedbacks[i].encryptedComments

\* C23: the list a successful requestAggregation by e sends holds the
\* handles of exactly the records of e, in increasing record-id order, 11
\* per record in the order score0, weight0, ..., score4, weight4, comment;
\* its length is 11 times the number of e's records, and it is determined
\* by the log and e alone.
C23_AggregationInputList ==
    [][(outcome'.op = "requestAggregation" /\ outcome'.ok) =>
          \A e \in Addr :
             (RequestAggregation(e) /\ Len(requests') = Len(requests) + 1) =>
                /\ IsHandleListOf(requests'[Len(requests')].ciphertexts, e)
                /\ requests'[Len(requests')].selector = "aggregateFeedback"
                /\ \A r \in IssuedIds : requests'[r] = requests[r]]_vars

\* a request was issued for an executive whose records are interleaved with
\* a record of somebody else
C23_Witness ==
    /\ outcome.op = "requestAggregation"
    /\ outcome.ok
    /\ \E e \in Addr :
          /\ outcome.events[1].executive = e
          /\ \E i, k \in 1..feedbackCount :
                /\ i < k
                /\ k < feedbackCount
                /\ feedbacks[i].executive = e
                /\ feedbacks[k].executive # e
                /\ feedbacks[feedbackCount].executive = e

\* ------------------------------------------------ delivery by the coprocessor
\* The callbacks are transactions sent by the coprocessor's relayer, an
\* account of its own that holds no role in the contract.
Coprocessor == "coprocessor"

Accounts == Addr \cup {Coprocessor}

\* the state after construction, with the relayer's account among the keys
\* of the mappings
InitWithCoprocessor ==
    /\ feedbackCount = 0
    /\ feedbacks = << >>
    /\ reports = [a \in Accounts |-> EmptyReport]
    /\ isExecutive = [a \in Accounts |-> FALSE]
    /\ isReviewer = [a \in Accounts |-> FALSE]
    /\ requests = << >>
    /\ outcome = [op |-> "constructor", requestId |-> NoRequest, ok |-> TRUE,
                  error |-> "", events |-> << >>, returned |-> << >>]

\* the coprocessor answers an aggregation request it has not answered yet:
\* it sends aggregateFeedback with the request's id, a result and its
\* signature over both
DeliverAggregation ==
    \E requestId \in 1..MaxRequests :
       /\ requestId \in IssuedIds
       /\ IsAggregationRequest(requestId)
       /\ Pending(requestId)
       /\ \E results \in DecodablePayloads :
             AggregateFeedback(Coprocessor, requestId, results,
                               Sign(requestId, results))

NextFairDelivery ==
    \/ \E sender \in SoleRegistrant : RegisterExecutive(sender)
    \/ \E reviewer \in ReviewerCandidates : ApproveReviewer(reviewer)
    \/ \E sender \in Addr, executive \in Addr,
          in \in FeedbackInputs(feedbackCount + 1) :
          SubmitFeedback(sender, executive, in)
    \/ \E sender \in Addr :
          RequestAggregation(sender) /\ Len(requests') <= MaxRequests
    \/ \E sender \in Accounts, requestId \in 1..MaxRequests :
          \E in \in CallbackInputs(requestId) :
             AggregateFeedback(sender, requestId, in.payload, in.proof)
    \/ \E sender \in Addr :
          RequestReportDecryption(sender) /\ Len(requests') <= MaxRequests
    \/ \E sender \in Accounts, requestId \in 1..MaxRequests :
          \E in \in CallbackInputs(requestId) :
             DecryptReport(sender, requestId, in.payload, in.proof)

\* The coprocessor answers every aggregation request: an answer that stays
\* due is eventually delivered.
SpecFairDelivery ==
    /\ InitWithCoprocessor
    /\ [][NextFairDelivery]_vars
    /\ WF_vars(DeliverAggregation)

\* requestDecryption by e passes its two checks (lines 665-666)
DecryptionAdmissible(e) == isExecutive[e] /\ reports[e].isAggregated

\* C24: liveness under fair delivery by the coprocessor.  Once
\* requestAggregation by e has succeeded, eventually the request is
\* Completed and report[e] is aggregated, and from then on requestDecryption
\* by e is admissible.
C24_AggregationEventuallyCompletes ==
    \A e \in Addr, r \in 1..MaxRequests :
       (/\ r \in IssuedIds
        /\ IsAggregationRequest(r)
        /\ requests[r].executive = e)
          ~> [](/\ r \in IssuedIds
                /\ requests[r].fulfilled
                /\ reports[e].isAggregated
                /\ DecryptionAdmissible(e))

\* the calls whose rejection C25 is about
GuardedCalls == {"submitFeedback", "requestAggregation",
                 "requestReportDecryption"}

\* the ids of the requests that are Pending
PendingIds == {r \in IssuedIds : Pending(r)}

\* C25: a rejected call leaves the whole state unchanged.  When
\* submitFeedback, requestAggregation or requestDecryption fails its
\* authorization or precondition check, the feedback log and feedbackCount,
\* every report, the roles and the set of Pending requests are the same
\* before and after, no request is issued and no event is emitted; and a
\* call whose authorization or precondition does not hold is rejected.
C25_RejectedCallChangesNothing ==
    [][outcome'.op \in GuardedCalls =>
          /\ ~outcome'.ok =>
                /\ feedbacks' = feedbacks
                /\ feedbackCount' = feedbackCount
                /\ reports' = reports
                /\ isExecutive' = isExecutive
                /\ isReviewer' = isReviewer
                /\ PendingIds' = PendingIds
                /\ requests' = requests
                /\ outcome'.events = << >>
          /\ \A sender \in Addr, executive \in Addr,
                in \in FeedbackInputs(feedbackCount + 1) :
                (/\ SubmitFeedback(sender, executive, in)
                 /\ (~isReviewer[sender] \/ ~isExecutive[executive])) =>
                    ~outcome'.ok
          /\ \A sender \in Addr :
                (/\ RequestAggregation(sender)
                 /\ \/ ~isExecutive[sender]
                    \/ reports[sender].isAggregated
                    \/ Cardinality(RecordsOf(sender)) < MIN_REVIEWERS) =>
                    ~outcome'.ok
          /\ \A sender \in Addr :
                (/\ RequestReportDecryption(sender)
                 /\ (~isExecutive[sender] \/ ~reports[sender].isAggregated)) =>
                    ~outcome'.ok]_vars

\* requestAggregation was rejected for too few records while the log is
\* not empty and another request is Pending
C25_Witness ==
    /\ outcome.op = "requestAggregation"
    /\ ~outcome.ok
    /\ outcome.error = "Insufficient feedback"
    /\ feedbackCount > 0
    /\ PendingIds # {}

\* the handles on the list of request r
HandlesOf(r) ==
    {requests[r].ciphertexts[k] : k \in 1..Len(requests[r].ciphertexts)}

\* record i is on the list of request r
RecordOnList(i, r) == ToBytes32(feedbacks[i].encryptedComments) \in HandlesOf(r)

\* C26: the inputs of an aggregation request are a snapshot taken at
\* request time.  A submitFeedback that follows requestAggregation by e is
\* appended to the log and changes the handle list of no outstanding
\* request; and a record submitted for e after e's request was issued is
\* never included in a report of e: when a callback writes the report of e
\* from a request of e, every record on that request's list was already on
\* the list of each earlier aggregation request of e.
C26_RequestInputsAreSnapshot ==
    [][/\ (outcome'.op = "submitFeedback" /\ outcome'.ok) =>
             /\ feedbackCount' = feedbackCount + 1
             /\ \A i \in 1..feedbackCount : feedbacks'[i] = feedbacks[i]
             /\ requests' = requests
       /\ (outcome'.op = "aggregateFeedback" /\ outcome'.ok) =>
             \A e \in Addr :
                LET r == outcome'.requestId
                IN (/\ reports'[e] # reports[e]
                    /\ IsAggregationRequest(r)
                    /\ requests[r].executive = e) =>
                       \A first \in 1..r, i \in RecordsOf(e) :
                          (/\ IsAggregationRequest(first)
                           /\ requests[first].executive = e
                           /\ RecordOnList(i, r)) =>
                              RecordOnList(i, first)]_vars

====
